---------------------------- MODULE Spec2Model ----------------------------
(***************************************************************************)
(* The asynchronous job engine of mcp-shell-cmd.js (v2.1, lines 300-651):  *)
(* validateCommand and the start_command tool, createJob and the four      *)
(* listeners it attaches, pollJob, killJob and its SIGKILL timer,          *)
(* listJobs, cleanupJob and the reaper interval.                           *)
(*                                                                         *)
(* Node runs every callback to completion on one thread, so each handler   *)
(* is one atomic action.  Job objects live in `heap` (the listeners and    *)
(* timers close over the object, not over the Map); `jobs` is the Map from *)
(* id to object.  Text is a sequence of one-character strings.             *)
(***************************************************************************)
EXTENDS Integers, Sequences, FiniteSets, TLC

VARIABLES
    jobs,        \* the Map `jobs`: id -> reference into heap
    jobCounter,  \* let jobCounter
    heap,        \* reference -> job object
    os,          \* reference -> state of the child process as an event source
    signals,     \* reference -> signals delivered through proc.kill, in order
    timers,      \* pending setTimeout callbacks of killJob, in firing order
    now,         \* Date.now()
    ticks,       \* number of clock advances so far (bounds the model only)
    last         \* the step just taken and, for a tool call, what it returned

vars == <<jobs, jobCounter, heap, os, signals, timers, now, ticks, last>>

-----------------------------------------------------------------------------
(* Bounds of the model *)

MaxJobs == 1
MaxOutput == 3
MaxErrOutput == 1
MaxSignals == 2
MaxTicks == 2
MaxFromLine == 1
MaxLineLen == 6
MaxPollFrom == 5
SmallOutput == 1
SmallSignals == 1
SmallFromLine == 0
MaxWords == 4
MaxChunkLen == 2
PairJobs == 2
PairTicks == 1

(* Constants of the program *)

StallMs == 30000
KillGraceMs == 1000
RetentionMs == 300000

\* null, as a number no exit code takes
NULL == -1
NL == "\n"

Refs == 1..jobCounter

\* Mutant: the id is made of the time alone.
MutJobId_TimeOnly(n, t) == <<"job", 0, t>>

\* The id string `job_${n}_${t}`.
JobId(n, t) == <<"job", n, t>>
\* An id createJob never returns.
UnknownId == <<"job", 0, 0>>

\* What the environment can deliver.
StdoutChunks == {<<"a">>, <<NL, "b">>}
StderrChunks == {<<"e">>}
LineChars == {"a", "b", "c", NL}
\* `code` of the close event: a number, or null when a signal ended the process.
ExitCodes == {0, 1, NULL}
TimeSteps == {StallMs, RetentionMs}
\* Commands a caller submits: "ls -la" and "rm -rf /".
LsLa == <<"l", "s", " ", "-", "l", "a">>
RmRf == <<"r", "m", " ", "-", "r", "f", " ", "/">>
Commands == {LsLa, RmRf}

\* Commands put before validateCommand: "cmd /c del foo", and every command
\* of up to MaxWords words of GuardWords with one blank between them (the
\* empty word gives leading, trailing and double blanks).
CmdDelFoo == <<"c", "m", "d", " ", "/", "c", " ", "d", "e", "l", " ", "f", "o", "o">>
GuardWords ==
    { << >>, <<"r", "m">>, <<"R", "m">>, <<"l", "s">>, <<"c", "m", "d">>,
      <<"C", "M", "D">>, <<"/", "c">>, <<"/", "C">>, <<"-", "c">>,
      <<"d", "e", "l">>, <<"'", "D", "e", "l">>,
      <<"d", "e", "l", ".", "e", "x", "e">>, <<"b", "a", "s", "h">> }
RECURSIVE JoinBlank(_)
JoinBlank(ws) ==
    IF Len(ws) = 1 THEN ws[1] ELSE ws[1] \o <<" ">> \o JoinBlank(Tail(ws))
GuardCommands ==
    {LsLa, RmRf, CmdDelFoo} \cup
    {JoinBlank(ws) : ws \in UNION {[1..n -> GuardWords] : n \in 1..MaxWords}}

-----------------------------------------------------------------------------
(* String.prototype.split('\n'), Array.prototype.slice and join('\n') *)

RECURSIVE Split(_)
Split(s) ==
    IF \A i \in 1..Len(s) : s[i] # NL
    THEN <<s>>
    ELSE LET i == CHOOSE k \in 1..Len(s) :
                      s[k] = NL /\ \A j \in 1..(k - 1) : s[j] # NL
         IN  <<SubSeq(s, 1, i - 1)>> \o Split(SubSeq(s, i + 1, Len(s)))

\* Mutant: the slice starts one element late.
MutSlice_OffByOne(arr, from) ==
    IF from + 1 >= Len(arr) THEN <<>> ELSE SubSeq(arr, from + 2, Len(arr))

Slice(arr, from) ==
    LET start == IF from < 0
                 THEN (IF Len(arr) + from < 0 THEN 0 ELSE Len(arr) + from)
                 ELSE from
    IN  IF start >= Len(arr) THEN <<>> ELSE SubSeq(arr, start + 1, Len(arr))

RECURSIVE Join(_)
Join(arr) ==
    IF arr = <<>> THEN <<>>
    ELSE IF Len(arr) = 1 THEN arr[1]
    ELSE arr[1] \o <<NL>> \o Join(Tail(arr))

-----------------------------------------------------------------------------
(* validateCommand *)

Lowers == <<"a", "b", "c", "d", "e", "f", "g", "h", "i", "j", "k", "l", "m",
            "n", "o", "p", "q", "r", "s", "t", "u", "v", "w", "x", "y", "z">>
Uppers == <<"A", "B", "C", "D", "E", "F", "G", "H", "I", "J", "K", "L", "M",
            "N", "O", "P", "Q", "R", "S", "T", "U", "V", "W", "X", "Y", "Z">>
Digits == {"0", "1", "2", "3", "4", "5", "6", "7", "8", "9"}

\* \s and \w of the regular expressions, and the two quotes of ["']
Space == {" ", "\t", NL, "\r"}
WordChar == {Lowers[i] : i \in DOMAIN Lowers} \cup {Uppers[i] : i \in DOMAIN Uppers}
                \cup Digits \cup {"_"}
Quote == {"\"", "'"}

\* String.prototype.toLowerCase
LowerOf ==
    [c \in {Uppers[i] : i \in DOMAIN Uppers} |->
        Lowers[CHOOSE i \in DOMAIN Uppers : Uppers[i] = c]]
ToLowerChar(c) == IF c \in DOMAIN LowerOf THEN LowerOf[c] ELSE c
ToLowerCase(s) == [i \in 1..Len(s) |-> ToLowerChar(s[i])]

\* const BLACKLISTED
BLACKLISTED ==
    { <<"r", "m">>, <<"r", "m", "d", "i", "r">>, <<"d", "e", "l">>,
      <<"f", "o", "r", "m", "a", "t">>, <<"m", "k", "f", "s">>, <<"d", "d">>,
      <<"c", "h", "m", "o", "d">>, <<"c", "h", "o", "w", "n">>,
      <<"s", "u", "d", "o">>, <<"s", "u">>,
      <<"s", "h", "u", "t", "d", "o", "w", "n">>,
      <<"r", "e", "b", "o", "o", "t">> }

\* The first position from i on that holds no character of `class`
\* (Len(s) + 1 when there is none).
RECURSIVE SkipWhile(_, _, _)
SkipWhile(s, i, class) ==
    IF i > Len(s) \/ s[i] \notin class THEN i ELSE SkipWhile(s, i + 1, class)

\* The last position up to i that holds no Space (0 when there is none).
RECURSIVE TrimEnd(_, _)
TrimEnd(s, i) ==
    IF i = 0 \/ s[i] \notin Space THEN i ELSE TrimEnd(s, i - 1)

\* String.prototype.trim
Trim(s) == SubSeq(s, SkipWhile(s, 1, Space), TrimEnd(s, Len(s)))

\* split(/\s+/)[0] of a trimmed string
FirstToken(s) ==
    LET NonSpace == {s[i] : i \in 1..Len(s)} \ Space
    IN  SubSeq(s, 1, SkipWhile(s, 1, NonSpace) - 1)

\* Where the group (\w+) of /cmd\s+\/c\s+["']?(\w+)/i starts when the
\* pattern is matched from position p on; 0 when it does not match there.
MatchAt(s, p) ==
    IF p + 2 > Len(s) \/ ToLowerCase(SubSeq(s, p, p + 2)) # <<"c", "m", "d">>
    THEN 0
    ELSE LET q == SkipWhile(s, p + 3, Space) IN
         IF q = p + 3 \/ q + 1 > Len(s) \/ s[q] # "/" \/ ToLowerChar(s[q + 1]) # "c"
         THEN 0
         ELSE LET t == SkipWhile(s, q + 2, Space)
                  w == IF t <= Len(s) /\ s[t] \in Quote THEN t + 1 ELSE t
              IN  IF t = q + 2 \/ w > Len(s) \/ s[w] \notin WordChar
                  THEN 0
                  ELSE w

\* m[1] of cmd.match(...): the group of the leftmost match, << >> for no match.
Match1(s) ==
    IF \E p \in 1..Len(s) : MatchAt(s, p) # 0
    THEN LET p == CHOOSE i \in 1..Len(s) :
                      MatchAt(s, i) # 0 /\ \A j \in 1..(i - 1) : MatchAt(s, j) = 0
             w == MatchAt(s, p)
         IN  SubSeq(s, w, SkipWhile(s, w, WordChar) - 1)
    ELSE << >>

\* Mutant: the first token is compared as it was typed.
MutValidateCommand_CaseSensitive(cmd) ==
    LET base == FirstToken(Trim(cmd)) IN
    IF base = <<"c", "m", "d">> /\ Match1(cmd) # << >>
    THEN ToLowerCase(Match1(cmd)) \notin BLACKLISTED
    ELSE base \notin BLACKLISTED

validateCommand(cmd) ==
    LET base == ToLowerCase(FirstToken(Trim(cmd))) IN
    IF base = <<"c", "m", "d">> /\ Match1(cmd) # << >>
    THEN ToLowerCase(Match1(cmd)) \notin BLACKLISTED
    ELSE base \notin BLACKLISTED

-----------------------------------------------------------------------------
(* createJob *)

NewJob(id, command) ==
    [id |-> id, command |-> command, status |-> "running",
     stdout |-> <<>>, stderr |-> <<>>, exitCode |-> NULL,
     startTime |-> now, lastOutputTime |-> now, outputLines |-> 0,
     proc |-> TRUE]

createJob(command) ==
    LET n == jobCounter + 1
        id == JobId(n, now)
    IN  /\ jobCounter' = n
        /\ heap' = heap @@ (n :> NewJob(id, command))
        /\ os' = os @@ (n :> "live")
        /\ signals' = signals @@ (n :> <<>>)
        /\ jobs' = (id :> n) @@ jobs
        /\ last' = [op |-> "start", command |-> command,
                    res |-> [job_id |-> id, status |-> "started"]]
        /\ UNCHANGED <<timers, now, ticks>>

\* Mutant: the command is run without asking validateCommand.
MutStartCommand_NoGuard(command) == createJob(command)

(* handleRequest, case 'start_command' *)
startCommand(command) ==
    IF ~validateCommand(command)
    THEN /\ last' = [op |-> "start", command |-> command,
                     res |-> [error |-> "Error: Command blacklisted"]]
         /\ UNCHANGED <<jobs, jobCounter, heap, os, signals, timers, now, ticks>>
    ELSE createJob(command)

\* Mutant: the chunk replaces the buffer instead of being appended to it.
MutOnStdout_Overwrites(job, text) ==
    [job EXCEPT !.stdout = text,
                !.lastOutputTime = now,
                !.outputLines = @ + (Len(Split(text)) - 1)]

\* Mutant: the counter goes up by the number of segments of the chunk.
MutOnStdout_CountsSegments(job, text) ==
    [job EXCEPT !.stdout = @ \o text,
                !.lastOutputTime = now,
                !.outputLines = @ + Len(Split(text))]

(* job.proc.stdout.on('data') *)
OnStdout(job, text) ==
    [job EXCEPT !.stdout = @ \o text,
                !.lastOutputTime = now,
                !.outputLines = @ + (Len(Split(text)) - 1)]

\* Mutant: the chunk is credited to every job.
MutStdoutData_EveryJob(r, text) ==
    /\ os[r] # "closed"
    /\ heap' = [k \in DOMAIN heap |-> OnStdout(heap[k], text)]
    /\ last' = [op |-> "stdout", ref |-> r]
    /\ UNCHANGED <<jobs, jobCounter, os, signals, timers, now, ticks>>

StdoutData(r, text) ==
    /\ os[r] # "closed"
    /\ heap' = [heap EXCEPT ![r] = OnStdout(@, text)]
    /\ last' = [op |-> "stdout", ref |-> r]
    /\ UNCHANGED <<jobs, jobCounter, os, signals, timers, now, ticks>>

\* Mutant: a stderr chunk does not count as output for the idle clock.
MutOnStderr_NoTimestamp(job, text) ==
    [job EXCEPT !.stderr = @ \o text]

(* job.proc.stderr.on('data') *)
OnStderr(job, text) ==
    [job EXCEPT !.stderr = @ \o text,
                !.lastOutputTime = now]

StderrData(r, text) ==
    /\ os[r] # "closed"
    /\ heap' = [heap EXCEPT ![r] = OnStderr(@, text)]
    /\ last' = [op |-> "stderr", ref |-> r]
    /\ UNCHANGED <<jobs, jobCounter, os, signals, timers, now, ticks>>

\* Mutant: the close handler does not release the handle.
MutOnClose_KeepsHandle(job, code) ==
    [job EXCEPT !.status = "done", !.exitCode = code]

(* job.proc.on('close') *)
OnClose(job, code) ==
    [job EXCEPT !.status = "done", !.exitCode = code, !.proc = FALSE]

\* 'close' is the last event of a child process and is emitted once.
Close(r, code) ==
    /\ os[r] # "closed"
    /\ os' = [os EXCEPT ![r] = "closed"]
    /\ heap' = [heap EXCEPT ![r] = OnClose(@, code)]
    /\ last' = [op |-> "close", ref |-> r]
    /\ UNCHANGED <<jobs, jobCounter, signals, timers, now, ticks>>

(* job.proc.on('error') *)
\* Mutant: the diagnostic replaces what stderr held.
MutOnError_ReplacesStderr(job) ==
    [job EXCEPT !.status = "error",
                !.stderr = <<"\nProcess error: ">>,
                !.proc = FALSE]

OnError(job) ==
    [job EXCEPT !.status = "error",
                !.stderr = @ \o <<"\nProcess error: ">>,
                !.proc = FALSE]

\* 'error' (the spawn failed, or a kill could not be delivered) comes before
\* 'close'; Node still emits 'close' after a failed spawn.
Error(r) ==
    /\ os[r] = "live"
    /\ os' = [os EXCEPT ![r] = "failed"]
    /\ heap' = [heap EXCEPT ![r] = OnError(@)]
    /\ last' = [op |-> "error", ref |-> r]
    /\ UNCHANGED <<jobs, jobCounter, signals, timers, now, ticks>>

-----------------------------------------------------------------------------
(* pollJob *)

\* lines.length, newOutput and elapsed of pollJob, for a job object at time t.
PollTotalLines(job) == Len(Split(job.stdout))
PollOutput(job, fromLine) == Join(Slice(Split(job.stdout), fromLine))
PollElapsed(job, t) == t - job.startTime

PollResult(job, fromLine) ==
    LET idleTime == now - job.lastOutputTime
    IN  [id |-> job.id,
         status |-> job.status,
         exitCode |-> job.exitCode,
         elapsedMs |-> PollElapsed(job, now),
         idleSinceMs |-> idleTime,
         totalLines |-> PollTotalLines(job),
         fromLine |-> fromLine,
         output |-> PollOutput(job, fromLine),
         stderr |-> job.stderr,
         isStalled |-> (idleTime > StallMs /\ job.status = "running")]

\* Mutant: totalLines is taken from the running newline counter.
MutPollJob_CountsNewlines(id, fromLine) ==
    IF id \notin DOMAIN jobs
    THEN [error |-> <<"Job not found: ", id>>]
    ELSE [PollResult(heap[jobs[id]], fromLine)
             EXCEPT !.totalLines = heap[jobs[id]].outputLines]

\* Mutant: an unknown id is answered like a job without output.
MutPollJob_UnknownEmpty(id, fromLine) ==
    IF id \notin DOMAIN jobs
    THEN [id |-> id, status |-> "done", output |-> << >>, totalLines |-> 1,
          fromLine |-> fromLine]
    ELSE PollResult(heap[jobs[id]], fromLine)

pollJob(id, fromLine) ==
    IF id \notin DOMAIN jobs
    THEN [error |-> <<"Job not found: ", id>>]
    ELSE PollResult(heap[jobs[id]], fromLine)

\* Mutant: a poll hands the buffer over and empties it.
MutPoll_Drains(id, fromLine) ==
    /\ last' = [op |-> "poll", id |-> id, fromLine |-> fromLine,
                res |-> pollJob(id, fromLine)]
    /\ heap' = IF id \in DOMAIN jobs
               THEN [heap EXCEPT ![jobs[id]].stdout = <<>>]
               ELSE heap
    /\ UNCHANGED <<jobs, jobCounter, os, signals, timers, now, ticks>>

Poll(id, fromLine) ==
    /\ last' = [op |-> "poll", id |-> id, fromLine |-> fromLine,
                res |-> pollJob(id, fromLine)]
    /\ UNCHANGED <<jobs, jobCounter, heap, os, signals, timers, now, ticks>>

(* killJob *)

\* Mutant: only a job that still has its process is marked killed.
MutKillStatus_OnlyIfLive(job) ==
    IF job.proc THEN [job EXCEPT !.status = "killed"] ELSE job

\* job.status = 'killed'
KillStatus(job) == [job EXCEPT !.status = "killed"]

\* Mutant: kill signals and arms the timer without looking at the handle.
MutKillJob_AlwaysSignals(id) ==
    IF id \notin DOMAIN jobs
    THEN /\ last' = [op |-> "kill", id |-> id,
                     res |-> [error |-> <<"Job not found: ", id>>]]
         /\ UNCHANGED <<jobs, jobCounter, heap, os, signals, timers, now, ticks>>
    ELSE LET r == jobs[id] IN
         /\ signals' = [signals EXCEPT ![r] = Append(@, "SIGTERM")]
         /\ timers' = Append(timers, [ref |-> r, ms |-> KillGraceMs])
         /\ heap' = [heap EXCEPT ![r] = KillStatus(@)]
         /\ last' = [op |-> "kill", id |-> id, res |-> [success |-> TRUE, id |-> id]]
         /\ UNCHANGED <<jobs, jobCounter, os, now, ticks>>

killJob(id) ==
    IF id \notin DOMAIN jobs
    THEN /\ last' = [op |-> "kill", id |-> id,
                     res |-> [error |-> <<"Job not found: ", id>>]]
         /\ UNCHANGED <<jobs, jobCounter, heap, os, signals, timers, now, ticks>>
    ELSE LET r == jobs[id] IN
         /\ IF heap[r].proc
            THEN /\ signals' = [signals EXCEPT ![r] = Append(@, "SIGTERM")]
                 /\ timers' = Append(timers, [ref |-> r, ms |-> KillGraceMs])
            ELSE UNCHANGED <<signals, timers>>
         /\ heap' = [heap EXCEPT ![r] = KillStatus(@)]
         /\ last' = [op |-> "kill", id |-> id, res |-> [success |-> TRUE, id |-> id]]
         /\ UNCHANGED <<jobs, jobCounter, os, now, ticks>>

\* Mutant: the timer does not look at the handle.
MutTimerSignals_NoCheck(job, sent) == Append(sent, "SIGKILL")

\* Mutant: the timer sends nothing.
MutTimerSignals_Never(job, sent) == sent

\* The callback killJob hands to setTimeout.
TimerSignals(job, sent) == IF job.proc THEN Append(sent, "SIGKILL") ELSE sent

KillTimer ==
    /\ timers # <<>>
    /\ Head(timers).ms = 0
    /\ LET r == Head(timers).ref IN
       /\ signals' = [signals EXCEPT ![r] = TimerSignals(heap[r], @)]
       /\ last' = [op |-> "timer", ref |-> r]
    /\ timers' = Tail(timers)
    /\ UNCHANGED <<jobs, jobCounter, heap, os, now, ticks>>

(* listJobs *)

PreviewLen == 100

\* Mutant: the command is listed in full.
MutSubstring0_Whole(s, n) == s

\* String.prototype.substring(0, n)
Substring0(s, n) == SubSeq(s, 1, IF Len(s) < n THEN Len(s) ELSE n)

ListEntry(id, job) ==
    [id |-> id, command |-> Substring0(job.command, PreviewLen),
     status |-> job.status, elapsedMs |-> now - job.startTime,
     outputLines |-> job.outputLines]

\* The Map is walked in insertion order, which is the order of creation.
listJobs ==
    LET RECURSIVE Walk(_)
        Walk(n) ==
            IF n = 0 THEN << >>
            ELSE Walk(n - 1) \o
                 (IF \E id \in DOMAIN jobs : jobs[id] = n
                  THEN LET id == CHOOSE k \in DOMAIN jobs : jobs[k] = n
                       IN  <<ListEntry(id, heap[n])>>
                  ELSE << >>)
    IN  Walk(jobCounter)

List ==
    /\ last' = [op |-> "list", res |-> listJobs]
    /\ UNCHANGED <<jobs, jobCounter, heap, os, signals, timers, now, ticks>>

\* A command longer than the preview of listJobs: "ls -la" and 100 times x.
LongCommand == LsLa \o [i \in 1..PreviewLen |-> "x"]

(* cleanupJob *)

\* Mutant: the removal does not look at the status.
MutCleanupJob_AnyStatus(id) ==
    IF id \in DOMAIN jobs
    THEN /\ jobs' = [k \in DOMAIN jobs \ {id} |-> jobs[k]]
         /\ last' = [op |-> "cleanup", id |-> id, res |-> [success |-> TRUE]]
         /\ UNCHANGED <<jobCounter, heap, os, signals, timers, now, ticks>>
    ELSE /\ last' = [op |-> "cleanup", id |-> id,
                     res |-> [error |-> "Job still running or not found"]]
         /\ UNCHANGED <<jobs, jobCounter, heap, os, signals, timers, now, ticks>>

cleanupJob(id) ==
    IF id \in DOMAIN jobs /\ heap[jobs[id]].status # "running"
    THEN /\ jobs' = [k \in DOMAIN jobs \ {id} |-> jobs[k]]
         /\ last' = [op |-> "cleanup", id |-> id, res |-> [success |-> TRUE]]
         /\ UNCHANGED <<jobCounter, heap, os, signals, timers, now, ticks>>
    ELSE /\ last' = [op |-> "cleanup", id |-> id,
                     res |-> [error |-> "Job still running or not found"]]
         /\ UNCHANGED <<jobs, jobCounter, heap, os, signals, timers, now, ticks>>

(* The setInterval callback.  Its 60 s period is not modelled: between any
   two steps the callback may or may not have come due, so it runs at any
   time. *)

\* Mutant: the reaper looks at the age only.
MutReaped_AnyAge == {id \in DOMAIN jobs : now - heap[jobs[id]].startTime > RetentionMs}

\* Mutant: a job is reaped already at the age of the window.
MutReaped_AtWindow == {id \in DOMAIN jobs :
                          /\ heap[jobs[id]].status # "running"
                          /\ now - heap[jobs[id]].startTime >= RetentionMs}

Reaped == {id \in DOMAIN jobs :
              /\ heap[jobs[id]].status # "running"
              /\ now - heap[jobs[id]].startTime > RetentionMs}

Reaper ==
    /\ jobs' = [k \in DOMAIN jobs \ Reaped |-> jobs[k]]
    /\ last' = [op |-> "reap"]
    /\ UNCHANGED <<jobCounter, heap, os, signals, timers, now, ticks>>

(* Date.now() moves on by d; every pending timer has d less to wait *)
Elapse(t, d) == [t EXCEPT !.ms = IF @ > d THEN @ - d ELSE 0]

Tick(d) ==
    /\ now' = now + d
    /\ timers' = [i \in 1..Len(timers) |-> Elapse(timers[i], d)]
    /\ ticks' = ticks + 1
    /\ last' = [op |-> "tick"]
    /\ UNCHANGED <<jobs, jobCounter, heap, os, signals>>

-----------------------------------------------------------------------------

Init ==
    /\ jobs = << >>
    /\ jobCounter = 0
    /\ heap = << >>
    /\ os = << >>
    /\ signals = << >>
    /\ timers = << >>
    /\ now = 0
    /\ ticks = 0
    /\ last = [op |-> "init"]

\* Every id a caller may hold: those issued so far, and one never issued.
Ids == {heap[r].id : r \in Refs} \cup {UnknownId}

TotalLen(field) ==
    LET RECURSIVE Sum(_)
        Sum(n) == IF n = 0 THEN 0 ELSE Len(heap[n][field]) + Sum(n - 1)
    IN  Sum(jobCounter)

TotalSignals ==
    LET RECURSIVE Sum(_)
        Sum(n) == IF n = 0 THEN 0 ELSE Len(signals[n]) + Sum(n - 1)
    IN  Sum(jobCounter)

(* The steps of the system, each within the bounds it is given *)

\* A submit that would create a job is taken only within the job budget.
Submit(commands, maxJobs) ==
    \E command \in commands :
        /\ validateCommand(command) => jobCounter < maxJobs
        /\ startCommand(command)

Stdout(chunks, maxOutput) ==
    \E r \in Refs, text \in chunks :
        TotalLen("stdout") + Len(text) <= maxOutput /\ StdoutData(r, text)

Stderr(maxErrOutput) ==
    \E r \in Refs, text \in StderrChunks :
        TotalLen("stderr") + Len(text) <= maxErrOutput /\ StderrData(r, text)

ExitWith(codes) == \E r \in Refs, code \in codes : Close(r, code)

Exit == ExitWith(ExitCodes)

Fail == \E r \in Refs : Error(r)

PollCall(maxFrom) == \E id \in Ids, fromLine \in 0..maxFrom : Poll(id, fromLine)

\* A kill that would signal a process is taken only within the signal budget.
KillCall(maxSignals) ==
    \E id \in Ids :
        /\ (id \in DOMAIN jobs /\ heap[jobs[id]].proc) => TotalSignals < maxSignals
        /\ killJob(id)

CleanupCall == \E id \in Ids : cleanupJob(id)

ClockBy(steps, maxTicks) == \E d \in steps : ticks < maxTicks /\ Tick(d)

Clock(maxTicks) == ClockBy(TimeSteps, maxTicks)

Next ==
    \/ Submit(Commands, MaxJobs)
    \/ Stdout(StdoutChunks, MaxOutput)
    \/ Stderr(MaxErrOutput)
    \/ Exit
    \/ Fail
    \/ PollCall(MaxFromLine)
    \/ KillCall(MaxSignals)
    \/ KillTimer
    \/ List
    \/ CleanupCall
    \/ Reaper
    \/ Clock(MaxTicks)

Spec == Init /\ [][Next]_vars

\* setInterval runs the reaper again and again, and time passes (here: until
\* the clock of the model has made its MaxTicks advances).
NextReap ==
    \/ Submit(Commands, MaxJobs)
    \/ Stdout(StdoutChunks, SmallOutput)
    \/ Stderr(MaxErrOutput)
    \/ Exit
    \/ Fail
    \/ PollCall(SmallFromLine)
    \/ KillCall(SmallSignals)
    \/ KillTimer
    \/ List
    \/ CleanupCall
    \/ Reaper
    \/ Clock(MaxTicks)

SpecReap == Init /\ [][NextReap]_vars /\ WF_vars(Reaper) /\ WF_vars(Clock(MaxTicks))

\* A process that was sent SIGKILL ends by that signal and its 'close' event,
\* with code null, is delivered.
ForcedExit ==
    \E r \in Refs :
        /\ \E i \in 1..Len(signals[r]) : signals[r][i] = "SIGKILL"
        /\ Close(r, NULL)

\* A timer that has come due fires, a process that was sent SIGKILL exits,
\* and time passes (here: until the clock of the model has made its MaxTicks
\* advances).
SpecKill ==
    /\ Init /\ [][NextReap]_vars
    /\ WF_vars(KillTimer) /\ WF_vars(ForcedExit) /\ WF_vars(Clock(MaxTicks))

\* Two jobs side by side, each with a small share of events: the first
\* command submitted is short, the second longer than the preview of list();
\* a chunk is one newline, a process exits with code 0, and the clock makes
\* one step, past the retention window.
PairCommands == IF jobCounter = 0 THEN {LsLa, RmRf} ELSE {LongCommand, RmRf}

NextPair ==
    \/ Submit(PairCommands, PairJobs)
    \/ Stdout({<<NL>>}, SmallOutput)
    \/ Stderr(MaxErrOutput)
    \/ ExitWith({0})
    \/ Fail
    \/ PollCall(SmallFromLine)
    \/ KillCall(SmallSignals)
    \/ KillTimer
    \/ List
    \/ CleanupCall
    \/ Reaper
    \/ ClockBy({RetentionMs + StallMs}, PairTicks)

SpecPair == Init /\ [][NextPair]_vars

\* validateCommand put to every command of GuardCommands: the command is
\* chosen at the start and submitted once.
InitGuard ==
    /\ jobs = << >>
    /\ jobCounter = 0
    /\ heap = << >>
    /\ os = << >>
    /\ signals = << >>
    /\ timers = << >>
    /\ now = 0
    /\ ticks = 0
    /\ \E command \in GuardCommands : last = [op |-> "init", command |-> command]

NextGuard == last.op = "init" /\ Submit({last.command}, 1)

SpecGuard == InitGuard /\ [][NextGuard]_vars

\* One job, fed one character at a time and polled at every offset: every
\* stdout buffer of up to MaxLineLen characters over LineChars is reached.
NextPoll ==
    \/ Submit({LsLa}, 1)
    \/ Stdout({<<c>> : c \in LineChars}, MaxLineLen)
    \/ PollCall(MaxPollFrom)

SpecPoll == Init /\ [][NextPoll]_vars

\* One job whose output arrives cut into chunks of up to MaxChunkLen
\* characters in every possible way, polled in between.
ChunkTexts == UNION {[1..n -> LineChars] : n \in 1..MaxChunkLen}

NextChunks ==
    \/ Submit({LsLa}, 1)
    \/ Stdout(ChunkTexts, MaxLineLen)
    \/ PollCall(SmallFromLine)

SpecChunks == Init /\ [][NextChunks]_vars

-----------------------------------------------------------------------------
(* Properties *)

Terminal == {"done", "error", "killed"}

Found(res) == "error" \notin DOMAIN res

\* C1: once a job's status is done, error or killed it never changes again
\* (a close after kill leaves killed; kill on a done or error job leaves it).
C1_TerminalIsFinal ==
    [][\A r \in Refs :
          heap[r].status \in Terminal => heap'[r].status = heap[r].status]_vars

\* C2: in every state, a job's exitCode is set if and only if its status is done.
C2_ExitCodeIffDone ==
    \A r \in Refs : (heap[r].exitCode # NULL) <=> (heap[r].status = "done")

\* C3 (as claimed): the process handle is non-null only if status is running.
C3_HandleOnlyWhileRunning ==
    \A r \in Refs : heap[r].proc => heap[r].status = "running"

\* C3 (amended): the process handle is non-null only if status is running or
\* killed; whenever status is done or error the handle is none.
C3_HandleOnlyWhileRunningOrKilled ==
    \A r \in Refs : heap[r].proc => heap[r].status \in {"running", "killed"}

C3_Witness ==
    \E r \in Refs :
        /\ last.op = "close" /\ last.ref = r
        /\ signals[r] # <<>>
        /\ heap[r].status = "done" /\ ~heap[r].proc

\* C4: kill(id) on a job in the registry returns {success: true, id} and leaves
\* the job's status killed, whether or not the process has exited and whether
\* or not the job was killed or terminal before.
C4_KillSucceeds ==
    (last.op = "kill" /\ last.id \in DOMAIN jobs) =>
        /\ last.res = [success |-> TRUE, id |-> last.id]
        /\ heap[jobs[last.id]].status = "killed"

\* A second kill of a job whose process has exited since the first.
C4_Witness ==
    /\ last.op = "kill"
    /\ last.id \in DOMAIN jobs
    /\ os[jobs[last.id]] = "closed"
    /\ signals[jobs[last.id]] # <<>>
    /\ last.res = [success |-> TRUE, id |-> last.id]

\* What a kill step and a timer step do to the signals sent and the timers.
C5_KillStep ==
    last'.op = "kill" =>
        IF last'.id \in DOMAIN jobs /\ heap[jobs[last'.id]].proc
        THEN /\ signals' = [signals EXCEPT ![jobs[last'.id]] = Append(@, "SIGTERM")]
             /\ timers' = Append(timers, [ref |-> jobs[last'.id], ms |-> KillGraceMs])
        ELSE /\ signals' = signals
             /\ timers' = timers

C5_TimerStep ==
    last'.op = "timer" =>
        IF heap[last'.ref].proc
        THEN signals' = [signals EXCEPT ![last'.ref] = Append(@, "SIGKILL")]
        ELSE signals' = signals

\* C5: kill with the handle present sends SIGTERM in the same step and
\* schedules one grace-period timer; kill with no handle sends nothing and
\* schedules nothing; a timer that fires sends SIGKILL if and only if the
\* handle is still present then.
C5_SignalDiscipline == [][C5_KillStep /\ C5_TimerStep]_vars

\* The timer fired after the close handler cleared the handle: nothing sent.
C5_Witness ==
    /\ last.op = "timer"
    /\ os[last.ref] = "closed"
    /\ signals[last.ref] = <<"SIGTERM">>

\* A poll step, and the answers poll gives before and after any step.
C6_PollStep ==
    last'.op = "poll" =>
        UNCHANGED <<jobs, jobCounter, heap, os, signals, timers, now, ticks>>

C6_SameAnswer ==
    \A id \in DOMAIN jobs \cap DOMAIN jobs', f \in 0..MaxFromLine :
        ~(last'.op = "stdout" /\ last'.ref = jobs[id]) =>
            /\ PollOutput(heap'[jobs'[id]], f) = PollOutput(heap[jobs[id]], f)
            /\ PollTotalLines(heap'[jobs'[id]]) = PollTotalLines(heap[jobs[id]])

\* C6: poll changes no field of any job and not the registry, and what poll
\* returns as output and totalLines for an id and fromLine is the same before
\* and after every step that is not a stdout chunk of that job.
C6_PollReadOnly == [][C6_PollStep /\ C6_SameAnswer]_vars

C6_Witness ==
    /\ last.op = "poll"
    /\ Found(last.res)
    /\ last.fromLine = 1
    /\ last.res.totalLines = 2
    /\ last.res.output # <<>>

ABC == <<"a", NL, "b", NL, "c", NL>>

\* C7 (as claimed): for the stdout buffer "a\nb\nc\n" poll reports totalLines
\* 4, output "a\nb\nc" from line 0, "b\nc" from line 1 and "" from line 5.
C7_OffsetExample ==
    (/\ last.op = "poll"
     /\ last.id \in DOMAIN jobs
     /\ heap[jobs[last.id]].stdout = ABC) =>
        /\ last.res.totalLines = 4
        /\ (last.fromLine = 0 => last.res.output = <<"a", NL, "b", NL, "c">>)
        /\ (last.fromLine = 1 => last.res.output = <<"b", NL, "c">>)
        /\ (last.fromLine = 5 => last.res.output = <<>>)

\* C7 (amended): for the stdout buffer "a\nb\nc\n" poll reports totalLines 4,
\* output "a\nb\nc\n" from line 0 (the empty last segment is joined too, so
\* the final newline stays), "b\nc\n" from line 1 and "" from line 5.
C7_OffsetExampleAmended ==
    (/\ last.op = "poll"
     /\ last.id \in DOMAIN jobs
     /\ heap[jobs[last.id]].stdout = ABC) =>
        /\ last.res.totalLines = 4
        /\ (last.fromLine = 0 => last.res.output = <<"a", NL, "b", NL, "c", NL>>)
        /\ (last.fromLine = 1 => last.res.output = <<"b", NL, "c", NL>>)
        /\ (last.fromLine = 5 => last.res.output = <<>>)

C7_Witness ==
    /\ last.op = "poll"
    /\ last.id \in DOMAIN jobs
    /\ heap[jobs[last.id]].stdout = ABC
    /\ last.fromLine = 1
    /\ last.res.output = <<"b", NL, "c", NL>>

\* The positions of the newlines of s, and what follows the k-th of them.
NLPos(s) == {i \in 1..Len(s) : s[i] = NL}
AfterNL(s, k) ==
    IF k = 0 THEN s
    ELSE LET i == CHOOSE p \in NLPos(s) :
                      Cardinality({q \in NLPos(s) : q <= p}) = k
         IN  SubSeq(s, i + 1, Len(s))

\* C8: for every stdout buffer and fromLine >= 0, totalLines is the number of
\* newline-delimited segments (newlines + 1), output is the text from segment
\* fromLine on, "" when fromLine >= totalLines, and fromLine is echoed.
C8_PollOutput ==
    (last.op = "poll" /\ last.id \in DOMAIN jobs) =>
        LET buf == heap[jobs[last.id]].stdout
            n == Cardinality(NLPos(buf)) + 1
        IN  /\ last.res.totalLines = n
            /\ last.res.fromLine = last.fromLine
            /\ last.res.output =
                   IF last.fromLine >= n THEN <<>> ELSE AfterNL(buf, last.fromLine)

C8_Witness ==
    /\ last.op = "poll"
    /\ last.id \in DOMAIN jobs
    /\ last.res.totalLines = 3
    /\ last.fromLine = 2
    /\ last.res.output = <<"c">>

\* C9: what poll reports as totalLines and as elapsedMs for a job never
\* decreases from one state to the next, whatever step is taken, so of any
\* two polls of a job the later reports at least what the earlier did.
C9_Monotone ==
    [][\A id \in DOMAIN jobs \cap DOMAIN jobs' :
          /\ PollTotalLines(heap'[jobs'[id]]) >= PollTotalLines(heap[jobs[id]])
          /\ PollElapsed(heap'[jobs'[id]], now') >= PollElapsed(heap[jobs[id]], now)]_vars

C9_Witness ==
    /\ last.op = "poll"
    /\ Found(last.res)
    /\ last.res.totalLines = 2
    /\ last.res.elapsedMs = StallMs + RetentionMs

\* The idle clock of every job across a step, and the answer of a poll step.
C10_LastChunk ==
    \A r \in 1..jobCounter' :
        heap'[r].lastOutputTime =
            IF r \notin Refs \/ (last'.op \in {"stdout", "stderr"} /\ last'.ref = r)
            THEN now'
            ELSE heap[r].lastOutputTime

C10_Answer ==
    (last'.op = "poll" /\ last'.id \in DOMAIN jobs') =>
        LET job == heap'[jobs'[last'.id]] IN
        last'.res.isStalled =
            (job.status = "running" /\ now' - job.lastOutputTime > StallMs)

\* C10: poll reports isStalled exactly when the job is running and more than
\* 30000 ms have passed since its last chunk on stdout or stderr (since its
\* start if there was none): lastOutputTime is the time of creation, is set to
\* the time of every chunk on either stream and is changed by nothing else,
\* and isStalled is status = running and now - lastOutputTime > 30000.  So a
\* poll right after a chunk reports false, and so does every poll of a done,
\* error or killed job.
C10_Stalled == [][C10_LastChunk /\ C10_Answer]_vars

\* A running job, silent for more than the threshold, polled.
C10_Witness ==
    /\ last.op = "poll"
    /\ Found(last.res)
    /\ last.res.status = "running"
    /\ last.res.idleSinceMs > StallMs
    /\ last.res.isStalled

\* C11: a job whose status is running is never removed from the registry,
\* whatever its age: after every step (a reaper run and a removal request
\* included) its id still maps to the same job, and list still shows it.
C11_RunningNeverRemoved ==
    [][\A id \in DOMAIN jobs :
          heap[jobs[id]].status = "running" =>
              /\ id \in DOMAIN jobs' /\ jobs'[id] = jobs[id]
              /\ \E i \in 1..Len(listJobs') : listJobs'[i].id = id]_vars

\* The reaper has just run past a running job older than the retention window.
C11_Witness ==
    /\ last.op = "reap"
    /\ \E id \in DOMAIN jobs :
           /\ heap[jobs[id]].status = "running"
           /\ now - heap[jobs[id]].startTime > RetentionMs

\* What a run of the reaper does to the registry and to list().
C12_ReapStep ==
    last'.op = "reap" =>
        \A id \in DOMAIN jobs :
            LET job == heap[jobs[id]]
                old == job.status # "running" /\ now - job.startTime > RetentionMs
            IN  /\ old => id \notin DOMAIN jobs'
                /\ old => \A i \in 1..Len(listJobs') : listJobs'[i].id # id
                /\ ~old => id \in DOMAIN jobs' /\ jobs'[id] = jobs[id]
                /\ ~old => \E i \in 1..Len(listJobs') : listJobs'[i].id = id

Listed(r) == r \in Refs /\ \E i \in 1..Len(listJobs) : jobs[listJobs[i].id] = r

\* The model's clock has stopped before the job outlived the retention window.
ClockStopped(r) == ticks = MaxTicks /\ now - heap[r].startTime <= RetentionMs

\* C12: a run of the reaper removes every job that is not running and older
\* than 300000 ms (now - startTime) from the registry and from list(), and
\* keeps every other job; with the reaper run again and again and time
\* passing, a job that is no longer running is eventually absent from list().
C12_Reaping ==
    /\ [][C12_ReapStep]_vars
    /\ \A r \in 1..MaxJobs :
           (Listed(r) /\ heap[r].status # "running")
               ~> (~Listed(r) \/ ClockStopped(r))

\* The reaper has just removed a job that ended and outlived the window.
C12_Witness ==
    /\ last.op = "reap"
    /\ \E r \in Refs :
           /\ heap[r].status = "done"
           /\ now - heap[r].startTime > RetentionMs
           /\ ~Listed(r)

\* C13: for an id with no record in the registry (never issued, or removed
\* since), poll and kill answer {error: 'Job not found: <id>'} and the removal
\* answers {error: 'Job still running or not found'}; the step changes neither
\* the registry nor any job, sends no signal and schedules no timer.
C13_UnknownId ==
    [][(last'.op \in {"poll", "kill", "cleanup"} /\ last'.id \notin DOMAIN jobs) =>
          /\ last'.res =
                 IF last'.op = "cleanup"
                 THEN [error |-> "Job still running or not found"]
                 ELSE [error |-> <<"Job not found: ", last'.id>>]
          /\ UNCHANGED <<jobs, jobCounter, heap, os, signals, timers, now, ticks>>]_vars

\* A kill of a job the reaper has removed.
C13_Witness ==
    /\ last.op = "kill"
    /\ last.id \notin DOMAIN jobs
    /\ \E r \in Refs : heap[r].id = last.id
    /\ ~Found(last.res)

\* C14: a submit of a command validateCommand rejects answers 'Error: Command
\* blacklisted', starts no process, adds no job to the registry and leaves
\* the id counter as it was; list() returns the same before and after.
C14_Blacklisted ==
    [][(last'.op = "start" /\ ~validateCommand(last'.command)) =>
          /\ last'.res = [error |-> "Error: Command blacklisted"]
          /\ UNCHANGED <<jobs, jobCounter, heap, os, signals, timers>>
          /\ listJobs' = listJobs]_vars

\* "rm -rf /" was submitted while a job was registered, and turned down.
C14_Witness ==
    /\ last.op = "start"
    /\ last.command = RmRf
    /\ ~Found(last.res)
    /\ jobCounter = 1
    /\ Len(listJobs) = 1

\* The whitespace-delimited tokens of a command.
RECURSIVE Tokens(_)
Tokens(s) ==
    LET a == SkipWhile(s, 1, Space) IN
    IF a > Len(s) THEN << >>
    ELSE LET b == SkipWhile(s, a, {s[i] : i \in 1..Len(s)} \ Space)
         IN  <<SubSeq(s, a, b - 1)>> \o Tokens(SubSeq(s, b, Len(s)))

FirstOf(toks) == IF toks = << >> THEN << >> ELSE ToLowerCase(toks[1])
Unquote(t) == IF t # << >> /\ t[1] \in Quote THEN Tail(t) ELSE t
\* The leading run of letters, digits and underscores of a token, one
\* leading quote dropped.
WordOf(t) == SubSeq(Unquote(t), 1, SkipWhile(Unquote(t), 1, WordChar) - 1)
EndsWithCmd(t) ==
    Len(t) >= 3 /\ ToLowerCase(SubSeq(t, Len(t) - 2, Len(t))) = <<"c", "m", "d">>
\* Where a token ending in "cmd" is followed by the token "/c" and a word.
WrapsAt(toks) ==
    {i \in 1..(Len(toks) - 2) :
        /\ EndsWithCmd(toks[i])
        /\ ToLowerCase(toks[i + 1]) = <<"/", "c">>
        /\ WordOf(toks[i + 2]) # << >>}

C15_Examples ==
    /\ last.command = RmRf => ~Found(last.res)
    /\ last.command = LsLa => Found(last.res)
    /\ last.command = CmdDelFoo => ~Found(last.res)

\* C15 (as claimed): a command is turned down exactly when its lower-cased
\* first token is in the denylist or, the first token being the wrapper cmd
\* and the second a -c or /c flag, when the first token of the wrapped command
\* is in the denylist; "rm -rf /" and "cmd /c del foo" are turned down and
\* "ls -la" is not.
C15_Guard ==
    last.op = "start" =>
        LET toks == Tokens(last.command)
            denied ==
                \/ FirstOf(toks) \in BLACKLISTED
                \/ /\ FirstOf(toks) = <<"c", "m", "d">>
                   /\ Len(toks) >= 3
                   /\ ToLowerCase(toks[2]) \in {<<"-", "c">>, <<"/", "c">>}
                   /\ ToLowerCase(Unquote(toks[3])) \in BLACKLISTED
        IN  /\ Found(last.res) = ~denied
            /\ C15_Examples

\* C15 (amended): when the lower-cased first token is cmd and the command
\* holds, anywhere, a token ending in "cmd" (in any case) followed by the
\* token /c (or /C) and a token that starts, after an optional quote, with a
\* letter, digit or underscore, the command is turned down exactly when the
\* leading word of that token at the leftmost such place is, lower-cased, in
\* the denylist; in every other case it is turned down exactly when the
\* lower-cased first token is in the denylist.  No other wrapper and no -c
\* flag is looked at.  "rm -rf /" and "cmd /c del foo" are turned down and
\* "ls -la" is not.
C15_GuardCmdSlashC ==
    last.op = "start" =>
        LET toks == Tokens(last.command)
            at == WrapsAt(toks)
            denied ==
                IF FirstOf(toks) = <<"c", "m", "d">> /\ at # {}
                THEN LET i == CHOOSE k \in at : \A j \in at : k <= j
                     IN  ToLowerCase(WordOf(toks[i + 2])) \in BLACKLISTED
                ELSE FirstOf(toks) \in BLACKLISTED
        IN  /\ Found(last.res) = ~denied
            /\ C15_Examples

\* "CMD /C 'Del" was submitted and turned down.
C15_Witness ==
    /\ last.op = "start"
    /\ last.command = <<"C", "M", "D", " ", "/", "C", " ", "'", "D", "e", "l">>
    /\ ~Found(last.res)

\* C16: the id a submit returns is the id of no job created before, whether
\* that job is still registered or was removed since and whether or not it
\* was created in the same millisecond; the submit adds one entry to the
\* registry and replaces none, and in every state the registry maps each id
\* to the one job that carries it.
C16_UniqueIds ==
    [][/\ (last'.op = "start" /\ Found(last'.res)) =>
             LET id == last'.res.job_id IN
             /\ \A r \in Refs : heap[r].id # id
             /\ id \notin DOMAIN jobs
             /\ DOMAIN jobs' = DOMAIN jobs \cup {id}
             /\ \A k \in DOMAIN jobs : jobs'[k] = jobs[k]
       /\ \A k \in DOMAIN jobs' : heap'[jobs'[k]].id = k
       /\ \A r1, r2 \in 1..jobCounter' :
             heap'[r1].id = heap'[r2].id => r1 = r2]_vars

\* A second submit in the millisecond of the first.
C16_Witness ==
    /\ last.op = "start"
    /\ Found(last.res)
    /\ jobCounter = 2
    /\ heap[1].startTime = heap[2].startTime
    /\ last.res.job_id = heap[2].id

\* A submit after the first job was reaped.
C16_WitnessReaped ==
    /\ last.op = "start"
    /\ Found(last.res)
    /\ jobCounter = 2
    /\ heap[1].id \notin DOMAIN jobs
    /\ now - heap[1].startTime > RetentionMs

IsPrefix(s, t) == Len(s) <= Len(t) /\ SubSeq(t, 1, Len(s)) = s

\* C17: across every step (chunk, exit, error, kill, poll, list, removal,
\* reaper, clock) the stdout and the stderr buffer of every job keep their
\* earlier value as a prefix, so each buffer in a later state extends the
\* buffer of every earlier state.
C17_AppendOnly ==
    [][\A r \in Refs :
          /\ IsPrefix(heap[r].stdout, heap'[r].stdout)
          /\ IsPrefix(heap[r].stderr, heap'[r].stderr)]_vars

\* The error handler has added its diagnostic after a chunk on stderr.
C17_Witness ==
    /\ last.op = "error"
    /\ heap[last.ref].stderr = <<"e", "\nProcess error: ">>
    /\ heap[last.ref].stdout # << >>

\* C18: the removal of a registered job whose status is running answers
\* {error: 'Job still running or not found'} and changes nothing; the removal
\* of a job whose status is done, error or killed answers {success: true} and
\* takes exactly that job out of the registry, and a poll of the id then
\* answers 'Job not found'.
C18_Remove ==
    [][\A id \in DOMAIN jobs :
          (last'.op = "cleanup" /\ last'.id = id) =>
              IF heap[jobs[id]].status = "running"
              THEN /\ last'.res = [error |-> "Job still running or not found"]
                   /\ UNCHANGED <<jobs, jobCounter, heap, os, signals, timers, now, ticks>>
              ELSE /\ heap[jobs[id]].status \in Terminal
                   /\ last'.res = [success |-> TRUE]
                   /\ jobs' = [k \in DOMAIN jobs \ {id} |-> jobs[k]]
                   /\ pollJob(id, 0)' = [error |-> <<"Job not found: ", id>>]
                   /\ UNCHANGED <<jobCounter, heap, os, signals, timers, now, ticks>>]_vars

\* A job that ended with an exit code has just been removed.
C18_Witness ==
    /\ last.op = "cleanup"
    /\ last.res = [success |-> TRUE]
    /\ \E r \in Refs :
           /\ heap[r].id = last.id
           /\ heap[r].status = "done"
           /\ last.id \notin DOMAIN jobs

\* The 'error' handler has written its diagnostic into this stderr text.
HasDiagnostic(text) == \E i \in 1..Len(text) : text[i] = "\nProcess error: "

\* C19: a submit of a command that passes validateCommand returns a job id
\* also when the process cannot be launched, and every poll of a job whose
\* launch failed (the diagnostic of the 'error' handler is in its stderr)
\* reports status error and no exitCode.
C19_LaunchFailure ==
    /\ (last.op = "start" /\ validateCommand(last.command)) => Found(last.res)
    /\ (last.op = "poll" /\ Found(last.res) /\ HasDiagnostic(last.res.stderr)) =>
           /\ last.res.status = "error"
           /\ last.res.exitCode = NULL

\* C20: list() returns one entry for each job in the registry and no other,
\* whatever the job's status; the entry carries the job's status, its
\* outputLines and as command the first 100 characters of the job's command
\* (the whole command when it is shorter); the call changes no job and not
\* the registry.
C20_List ==
    [][last'.op = "list" =>
          LET res == last'.res IN
          /\ UNCHANGED <<jobs, jobCounter, heap, os, signals, timers, now, ticks>>
          /\ Len(res) = Cardinality(DOMAIN jobs)
          /\ \A id \in DOMAIN jobs :
                 Cardinality({i \in 1..Len(res) : res[i].id = id}) = 1
          /\ \A i \in 1..Len(res) :
                 /\ res[i].id \in DOMAIN jobs
                 /\ LET job == heap[jobs[res[i].id]] IN
                    /\ res[i].status = job.status
                    /\ res[i].outputLines = job.outputLines
                    /\ Len(res[i].command) <= 100
                    /\ IsPrefix(res[i].command, job.command)
                    /\ Len(job.command) <= 100 => res[i].command = job.command
                    /\ Len(job.command) > 100 => Len(res[i].command) = 100]_vars

\* Two jobs listed: one that has ended, with a line of output, and a
\* running one whose command is cut to the preview length.
C20_Witness ==
    /\ last.op = "list"
    /\ Len(last.res) = 2
    /\ last.res[1].status = "done"
    /\ last.res[1].outputLines = 1
    /\ last.res[1].command = LsLa
    /\ last.res[2].status = "running"
    /\ Len(last.res[2].command) = 100
    /\ Len(heap[2].command) > 100

\* C21: for every job at most one of the 'close' handler and the 'error'
\* handler ever takes effect: no job has had both run on it (the 'error'
\* handler leaves its diagnostic in stderr, the 'close' handler runs when the
\* process's 'close' event is delivered).
C21_OneTerminalHandler ==
    \A r \in Refs : ~(os[r] = "closed" /\ HasDiagnostic(heap[r].stderr))

\* C22: whatever chunks the stdout of a job arrived in, its outputLines is
\* the number of newline characters in its whole stdout buffer, and the
\* totalLines a poll reports is outputLines + 1.
C22_LineCount ==
    /\ \A r \in Refs : heap[r].outputLines = Cardinality(NLPos(heap[r].stdout))
    /\ (last.op = "poll" /\ Found(last.res)) =>
           last.res.totalLines - 1 = heap[jobs[last.id]].outputLines

\* A chunk has just completed a buffer of two lines and an unfinished third.
C22_Witness ==
    /\ last.op = "stdout"
    /\ heap[last.ref].stdout = <<"a", NL, "b", "c", NL, "a">>
    /\ heap[last.ref].outputLines = 2

\* C23: once the 'close' or the 'error' handler has cleared a job's handle,
\* the handle stays cleared and no step sends a signal for that job: not a
\* kill, and not a timer of an earlier kill, however many are pending.
C23_NoSignalAfterExit ==
    [][\A r \in Refs :
          ~heap[r].proc => /\ ~heap'[r].proc
                           /\ signals'[r] = signals[r]]_vars

\* Two kills in one grace period, then the exit; the first of the two
\* timers has just fired and sent nothing.
C23_Witness ==
    /\ last.op = "timer"
    /\ ~heap[last.ref].proc
    /\ os[last.ref] = "closed"
    /\ signals[last.ref] = <<"SIGTERM", "SIGTERM">>
    /\ Len(timers) = 1

\* C24: whenever a step removes a job from the registry (a run of the reaper
\* or a removal request), that job's process handle is none.
C24_EvictedOnlyWithoutHandle ==
    [][\A id \in DOMAIN jobs :
          id \notin DOMAIN jobs' => ~heap[jobs[id]].proc]_vars

\* The model's clock has stopped while a timer of the job still has to wait.
TimerStopped(r) ==
    /\ ticks = MaxTicks
    /\ \E i \in 1..Len(timers) : timers[i].ref = r /\ timers[i].ms > 0

\* C25: a job that was killed while its process handle was present does not
\* keep the handle for ever: with the kill timer firing when due, a process
\* that was sent SIGKILL exiting and its 'close' event delivered, the handle
\* is eventually cleared.
C25_HandleCleared ==
    \A r \in 1..MaxJobs :
        (r \in Refs /\ heap[r].status = "killed" /\ heap[r].proc)
            ~> ((r \in Refs /\ ~heap[r].proc) \/ TimerStopped(r))

\* The process has gone after SIGTERM and the timer's SIGKILL, and the
\* 'close' handler has cleared the handle.
C25_Witness ==
    /\ last.op = "close"
    /\ signals[last.ref] = <<"SIGTERM", "SIGKILL">>
    /\ ~heap[last.ref].proc
    /\ heap[last.ref].exitCode = NULL

\* The job a step is aimed at: 0 for a step aimed at no job.
TargetOf(l) ==
    IF l.op \in {"stdout", "stderr", "close", "error", "timer"} THEN l.ref
    ELSE IF l.op = "kill" /\ l.id \in DOMAIN jobs THEN jobs[l.id]
    ELSE 0

\* C26: a chunk on stdout or stderr, an exit, an error, a kill and a firing
\* kill timer of one job leave every field of every other job as it was, send
\* no signal for another job and leave the registry as it was; an entry
\* appears in the registry only by a submit and disappears only by a run of
\* the reaper or a removal.
C26_Frame ==
    [][/\ last'.op \in {"stdout", "stderr", "close", "error", "kill", "timer"} =>
             /\ jobs' = jobs
             /\ \A b \in Refs \ {TargetOf(last')} :
                    heap'[b] = heap[b] /\ signals'[b] = signals[b]
       /\ DOMAIN jobs' \ DOMAIN jobs # {} => last'.op = "start"
       /\ DOMAIN jobs \ DOMAIN jobs' # {} => last'.op \in {"reap", "cleanup"}]_vars

\* The first of two jobs has just exited; the second is running untouched.
C26_Witness ==
    /\ last.op = "close"
    /\ last.ref = 1
    /\ jobCounter = 2
    /\ heap[1].status = "done"
    /\ heap[2].status = "running"
    /\ heap[2].proc
    /\ heap[2].stdout = <<NL>>

=============================================================================
